---- MODULE Spec2Model ----
(***************************************************************************)
(* Model of liblzma's format auto-detecting decoder (auto_decoder.c).      *)
(*                                                                         *)
(* The dispatcher (struct lzma_coder_s) owns one nested coder slot, a      *)
(* memory limit, a flag set and a three-valued sequence.  auto_decode()    *)
(* peeks the first input byte, initialises the .lzma Stream decoder or the *)
(* LZMA_Alone decoder, and then forwards to it.  The two concrete decoders *)
(* live outside auto_decoder.c; they are modelled here as small streaming  *)
(* coders over a toy grammar (lead byte, payload bytes, end marker).       *)
(***************************************************************************)
EXTENDS Integers, Sequences, FiniteSets, TLC

(***************************************************************************)
(* Bounds of the model.                                                    *)
(***************************************************************************)
\* Longest input the caller ever supplies (bytes appended to the buffer).
MaxLen == 4
\* Largest output buffer the caller ever supplies.
MaxOut == 1

(***************************************************************************)
(* Program constants.                                                      *)
(***************************************************************************)
\* enum { SEQ_INIT, SEQ_CODE, SEQ_FINISH } sequence
SEQ_INIT == 0
SEQ_CODE == 1
SEQ_FINISH == 2

\* First magic byte of the .lzma Stream format (0xFD).
MagicByte == 253
\* A typical LZMA_Alone properties byte (0x5D), standing for "any other byte".
AloneByte == 93
\* End-of-payload marker of the toy sub-stream grammar.
EndByte == 0

Bytes == {MagicByte, AloneByte, EndByte}
\* After the first byte of a stream the decoders tell bytes apart only as
\* magic, end marker or payload, so the caller's later bytes are drawn from:
LaterBytes == {MagicByte, EndByte}

LZMA_RUN == "LZMA_RUN"
LZMA_FINISH == "LZMA_FINISH"
Actions == {LZMA_RUN, LZMA_FINISH}

LZMA_TELL_NO_CHECK == "LZMA_TELL_NO_CHECK"
LZMA_TELL_ANY_CHECK == "LZMA_TELL_ANY_CHECK"
LZMA_CONCATENATED == "LZMA_CONCATENATED"
\* Stands for every bit outside the supported set.
UNSUPPORTED_BIT == "UNSUPPORTED_BIT"

LZMA_SUPPORTED_FLAGS ==
    {LZMA_TELL_NO_CHECK, LZMA_TELL_ANY_CHECK, LZMA_CONCATENATED}
\* The flag arguments the caller tries: every supported combination, and
\* an unsupported bit alone or together with a supported one.
FlagChoices ==
    (SUBSET LZMA_SUPPORTED_FLAGS)
        \cup {{UNSUPPORTED_BIT}, {UNSUPPORTED_BIT, LZMA_CONCATENATED}}

\* The memory limit the caller configures; the dispatcher only stores it and
\* hands it on, so one value besides the unconfigured 0 is tried.
MemLimits == {1}

LZMA_OK == "LZMA_OK"
LZMA_STREAM_END == "LZMA_STREAM_END"
LZMA_NO_CHECK == "LZMA_NO_CHECK"
LZMA_GET_CHECK == "LZMA_GET_CHECK"
LZMA_MEM_ERROR == "LZMA_MEM_ERROR"
LZMA_FORMAT_ERROR == "LZMA_FORMAT_ERROR"
LZMA_OPTIONS_ERROR == "LZMA_OPTIONS_ERROR"
LZMA_DATA_ERROR == "LZMA_DATA_ERROR"
LZMA_PROG_ERROR == "LZMA_PROG_ERROR"
\* Not a return value: the call went through a NULL function pointer, which
\* is undefined and traps on the platforms the library is built for.
CRASH == "CRASH"

LZMA_CHECK_NONE == "LZMA_CHECK_NONE"
LZMA_CHECK_CRC32 == "LZMA_CHECK_CRC32"

VARIABLES
    allocated,   \* next->coder != NULL: the dispatcher's storage exists
    sequence,    \* coder->sequence
    memlimit,    \* coder->memlimit
    flags,       \* coder->flags
    nxt,         \* coder->next: the nested coder slot
    inbuf,       \* the caller's input buffer `in` (in_size = Len(inbuf))
    in_pos,      \* *in_pos
    out_pos,     \* *out_pos
    out_size,    \* out_size
    last,        \* record of the most recent call on the handle
    hist,        \* what has happened since the last successful configure
    crashed      \* the process died (call through a NULL function pointer)

vars == <<allocated, sequence, memlimit, flags, nxt, inbuf, in_pos,
          out_pos, out_size, last, hist, crashed>>

in_size == Len(inbuf)

(***************************************************************************)
(* The nested coder slot (lzma_next_coder).                                *)
(***************************************************************************)
\* LZMA_NEXT_CODER_INIT: no initializer, no coder, no function pointers.
LZMA_NEXT_CODER_INIT ==
    [init |-> "none", code |-> FALSE, pos |-> "header", ended |-> FALSE,
     concat |-> FALSE]


\* lzma_next_end(): release whatever the slot holds and leave it empty.
lzma_next_end(s) == LZMA_NEXT_CODER_INIT

\* lzma_next_coder_init(func, next, allocator): a slot last set up by a
\* different initializer is released first; then the initializer is recorded.
lzma_next_coder_init(kind, s) ==
    IF s.init # kind
    THEN [lzma_next_end(s) EXCEPT !.init = kind]
    ELSE s

\* lzma_stream_decoder_init(next, allocator, memlimit, flags).  `ok` is the
\* outcome of its allocations.  On success the decoder is reset to the start
\* of a stream; on failure a freshly emptied slot keeps its NULL pointers.
lzma_stream_decoder_init(s, mem, fl, ok) ==
    LET s1 == lzma_next_coder_init("stream", s)
    IN  IF ok
        THEN [ret |-> LZMA_OK,
              next |-> [init |-> "stream", code |-> TRUE, pos |-> "header",
                        ended |-> FALSE,
                        concat |-> (LZMA_CONCATENATED \in fl)]]
        ELSE [ret |-> LZMA_MEM_ERROR, next |-> s1]

\* lzma_alone_decoder_init(next, allocator, memlimit): takes no flags.
lzma_alone_decoder_init(s, mem, ok) ==
    LET s1 == lzma_next_coder_init("alone", s)
    IN  IF ok
        THEN [ret |-> LZMA_OK,
              next |-> [init |-> "alone", code |-> TRUE, pos |-> "header",
                        ended |-> FALSE, concat |-> FALSE]]
        ELSE [ret |-> LZMA_MEM_ERROR, next |-> s1]

(***************************************************************************)
(* next.code of the installed decoder, over the toy grammar                *)
(*     sub-stream ::= lead-byte payload-byte* EndByte                      *)
(* where the Stream format's lead byte is MagicByte and every payload byte *)
(* yields one output byte.  The Stream decoder given LZMA_CONCATENATED     *)
(* goes on to the next sub-stream and reports the end only on LZMA_FINISH  *)
(* with no input left; otherwise a decoder reports LZMA_STREAM_END as soon *)
(* as it has consumed the end marker, and keeps reporting it afterwards.   *)
(***************************************************************************)
RECURSIVE DelegateCode(_, _, _, _, _, _)
DelegateCode(s, in, ipos, opos, osize, action) ==
    LET avail == ipos < Len(in)
        b == in[ipos + 1]
        concat == s.init = "stream" /\ s.concat
        stop(r, s2) ==
            [next |-> s2, in_pos |-> ipos, out_pos |-> opos, ret |-> r]
    IN  CASE s.pos = "end" -> stop(LZMA_STREAM_END, s)
          [] s.pos = "header" ->
                IF ~avail THEN stop(LZMA_OK, s)
                ELSE IF s.init = "stream" /\ b # MagicByte
                THEN stop(LZMA_FORMAT_ERROR, s)
                ELSE DelegateCode([s EXCEPT !.pos = "body"], in,
                                  ipos + 1, opos, osize, action)
          [] s.pos = "body" ->
                IF ~avail THEN stop(LZMA_OK, s)
                ELSE IF b = EndByte
                THEN IF concat
                     THEN DelegateCode([s EXCEPT !.pos = "between"], in,
                                       ipos + 1, opos, osize, action)
                     ELSE [next |-> [s EXCEPT !.pos = "end", !.ended = TRUE],
                           in_pos |-> ipos + 1, out_pos |-> opos,
                           ret |-> LZMA_STREAM_END]
                ELSE IF opos < osize
                THEN DelegateCode(s, in, ipos + 1, opos + 1, osize, action)
                ELSE stop(LZMA_OK, s)
          [] s.pos = "between" ->
                IF ~avail
                THEN IF action = LZMA_FINISH
                     THEN stop(LZMA_STREAM_END,
                               [s EXCEPT !.pos = "end", !.ended = TRUE])
                     ELSE stop(LZMA_OK, s)
                ELSE IF b = MagicByte
                THEN DelegateCode([s EXCEPT !.pos = "body"], in,
                                  ipos + 1, opos, osize, action)
                ELSE stop(LZMA_FORMAT_ERROR, s)

\* next.get_check of the installed decoder: only the Stream decoder has one.
HasGetCheck(s) == s.init = "stream" /\ s.code
DelegateGetCheck(s) == LZMA_CHECK_CRC32

(***************************************************************************)
(* auto_decode()                                                           *)
(***************************************************************************)
\* Faulty variant: the test is off by one.
InputExhausted_OffByOne(pos, size) == pos > size

\* if (*in_pos >= in_size) return LZMA_OK;
InputExhausted(pos, size) == pos >= size

\* in[*in_pos].  The code reads it only behind the test above; outside the
\* window the model reads the end marker's value.
Peek(in, ipos) == IF ipos < Len(in) THEN in[ipos + 1] ELSE EndByte

\* Faulty variant: the test is inverted.
IsStreamMagic_Inverted(b) == b # MagicByte

\* if (in[*in_pos] == 0xFD)
IsStreamMagic(b) == b = MagicByte

\* Faulty variant: LZMA_TELL_NO_CHECK is not handled for LZMA_Alone.
AloneCheckStatus_NoCheckDropped(fl) ==
    IF LZMA_TELL_ANY_CHECK \in fl THEN LZMA_GET_CHECK ELSE "none"

\* Faulty variant: LZMA_TELL_ANY_CHECK is not handled for LZMA_Alone.
AloneCheckStatus_AnyCheckDropped(fl) ==
    IF LZMA_TELL_NO_CHECK \in fl THEN LZMA_NO_CHECK ELSE "none"

\* The LZMA_*_CHECK status synthesised for LZMA_Alone ("none": fall through).
AloneCheckStatus(fl) ==
    IF LZMA_TELL_NO_CHECK \in fl THEN LZMA_NO_CHECK
    ELSE IF LZMA_TELL_ANY_CHECK \in fl THEN LZMA_GET_CHECK
    ELSE "none"

\* Faulty variant: the stream end is intercepted whatever the flags.
ReturnsDelegateStatus_IgnoresFlag(ret, fl) == ret # LZMA_STREAM_END

\* Faulty variant: the wrong status is compared, so LZMA_OK is what is intercepted.
ReturnsDelegateStatus_WrongStatus(ret, fl) ==
    ret # LZMA_OK \/ LZMA_CONCATENATED \notin fl

\* Faulty variant: the stream end is never intercepted.
ReturnsDelegateStatus_Always(ret, fl) == TRUE

\* if (ret != LZMA_STREAM_END || (coder->flags & LZMA_CONCATENATED) == 0)
\*         return ret;
ReturnsDelegateStatus(ret, fl) ==
    ret # LZMA_STREAM_END \/ LZMA_CONCATENATED \notin fl

\* Faulty variant: LZMA_FINISH is not honoured.
FinishStatus_NeverEnds(pos, size, action) ==
    IF pos < size THEN LZMA_DATA_ERROR ELSE LZMA_OK

\* Faulty variant: trailing input is not looked for.
FinishStatus_NoTrailingCheck(pos, size, action) ==
    IF action = LZMA_FINISH THEN LZMA_STREAM_END ELSE LZMA_OK

\* Faulty variant: the stream end is reported without waiting for LZMA_FINISH.
FinishStatus_IgnoresAction(pos, size, action) ==
    IF pos < size THEN LZMA_DATA_ERROR ELSE LZMA_STREAM_END

\* case SEQ_FINISH
FinishStatus(pos, size, action) ==
    IF pos < size THEN LZMA_DATA_ERROR
    ELSE IF action = LZMA_FINISH THEN LZMA_STREAM_END
    ELSE LZMA_OK

\* Faulty variant: the dispatcher goes back to detection.
SequenceAfterStreamEnd_Rewind == SEQ_INIT

\* The sequence value stored once the delegate's stream end is intercepted.
SequenceAfterStreamEnd == SEQ_FINISH

\* case SEQ_CODE (falling through to SEQ_FINISH) with slot s installed.
\* A slot whose code pointer is NULL makes the call undefined: it traps.
CodeStep(s, fl, in, ipos, opos, osize, action, kind) ==
    LET iret == IF kind = "none" THEN "none" ELSE LZMA_OK
    IN  IF ~s.code
        THEN [sequence |-> SEQ_CODE, next |-> s, in_pos |-> ipos,
              out_pos |-> opos, ret |-> CRASH, initKind |-> kind,
              initRet |-> iret, delegated |-> FALSE]
        ELSE LET d == DelegateCode(s, in, ipos, opos, osize, action)
             IN  IF ReturnsDelegateStatus(d.ret, fl)
                 THEN [sequence |-> SEQ_CODE, next |-> d.next,
                       in_pos |-> d.in_pos, out_pos |-> d.out_pos,
                       ret |-> d.ret, initKind |-> kind, initRet |-> iret,
                       delegated |-> TRUE]
                 ELSE [sequence |-> SequenceAfterStreamEnd, next |-> d.next,
                       in_pos |-> d.in_pos, out_pos |-> d.out_pos,
                       ret |-> FinishStatus(d.in_pos, Len(in), action),
                       initKind |-> kind, initRet |-> iret,
                       delegated |-> TRUE]

\* No initializer called.
NoArgs == [memlimit |-> 0, flags |-> {}, withFlags |-> FALSE]

\* Faulty variant: LZMA_CONCATENATED is kept from the Stream decoder.
InitArgs_DropsConcatenated(c, kind) ==
    IF kind = "stream"
    THEN [memlimit |-> c.memlimit,
          flags |-> c.flags \ {LZMA_CONCATENATED}, withFlags |-> TRUE]
    ELSE [memlimit |-> c.memlimit, flags |-> {}, withFlags |-> FALSE]

\* The arguments that detection passes to the initializer of the given
\* kind: coder->memlimit and coder->flags to lzma_stream_decoder_init(),
\* coder->memlimit alone to lzma_alone_decoder_init().
InitArgs(c, kind) ==
    IF kind = "stream"
    THEN [memlimit |-> c.memlimit, flags |-> c.flags, withFlags |-> TRUE]
    ELSE [memlimit |-> c.memlimit, flags |-> {}, withFlags |-> FALSE]

\* Faulty variant: detection consumes the byte it looks at.
DetectionCursor_Consumes(ipos) == ipos + 1

\* *in_pos after detection: in[*in_pos] is read and *in_pos is left alone.
DetectionCursor(ipos) == ipos

\* Faulty variant: the sequence moves on only once the initializer succeeded.
DetectionSequence_AfterInit(initRet) ==
    IF initRet = LZMA_OK THEN SEQ_CODE ELSE SEQ_INIT

\* The sequence that a detection call leaves when it returns before calling
\* the slot's code function; initRet is the initializer's result.  The
\* assignment precedes the initializer and does not depend on it.
DetectionSequence(initRet) == SEQ_CODE

\* The whole switch.  c is the dispatcher, initOk the outcome of the chosen
\* initializer's allocations should detection run in this call.
auto_decode(c, in, ipos, opos, osize, action, initOk) ==
    LET same(r) ==
            [sequence |-> c.sequence, next |-> c.next, in_pos |-> ipos,
             out_pos |-> opos, ret |-> r, initKind |-> "none",
             initRet |-> "none", delegated |-> FALSE]
    IN  CASE c.sequence = SEQ_INIT ->
                IF InputExhausted(ipos, Len(in))
                THEN same(LZMA_OK)
                ELSE LET kind == IF IsStreamMagic(Peek(in, ipos))
                                 THEN "stream" ELSE "alone"
                         i == IF kind = "stream"
                              THEN lzma_stream_decoder_init(
                                      c.next, InitArgs(c, kind).memlimit,
                                      InitArgs(c, kind).flags, initOk)
                              ELSE lzma_alone_decoder_init(
                                      c.next, InitArgs(c, kind).memlimit,
                                      initOk)
                         early(r) ==
                            [sequence |-> DetectionSequence(i.ret),
                             next |-> i.next,
                             in_pos |-> DetectionCursor(ipos),
                             out_pos |-> opos, ret |-> r,
                             initKind |-> kind, initRet |-> i.ret,
                             delegated |-> FALSE]
                     IN  IF i.ret # LZMA_OK
                         THEN early(i.ret)
                         ELSE IF kind = "alone"
                                 /\ AloneCheckStatus(c.flags) # "none"
                         THEN early(AloneCheckStatus(c.flags))
                         ELSE CodeStep(i.next, c.flags, in,
                                       DetectionCursor(ipos), opos,
                                       osize, action, kind)
          [] c.sequence = SEQ_CODE ->
                CodeStep(c.next, c.flags, in, ipos, opos, osize, action,
                         "none")
          [] c.sequence = SEQ_FINISH ->
                same(FinishStatus(ipos, Len(in), action))
          [] OTHER -> same(LZMA_PROG_ERROR)


(***************************************************************************)
(* State, calls and the caller's environment.                              *)
(***************************************************************************)
\* last: the operation, its action argument and its return value; for an
\* advance call also what held on entry (the sequence, whether an input byte
\* was available and which, whether the slot's decoder had reported its
\* stream end, for a detection call which decoder an earlier stream left in
\* the slot), what the call did (the initializer it invoked, that
\* initializer's result and arguments, whether it called the slot's code
\* function, whether the cursors and the slot changed); for a teardown the
\* sequence on entry and how many times a decoder in the slot was released.
\* A step of the caller that is no call on the handle ("feed", "grow")
\* clears the record.
NoCall ==
    [op |-> "none", action |-> LZMA_RUN, ret |-> LZMA_OK,
     seq0 |-> SEQ_INIT, avail0 |-> FALSE, first |-> EndByte,
     ended0 |-> FALSE, init0 |-> "none", initKind |-> "none",
     initRet |-> "none", initArgs |-> NoArgs,
     delegated |-> FALSE, inMoved |-> FALSE, outMoved |-> FALSE,
     nextChanged |-> FALSE, released |-> 0]

\* hist: LZMA_STREAM_END returns (counted up to 2), whether LZMA_DATA_ERROR
\* was returned, whether LZMA_FINISH was used, the initializer calls
\* (counted up to 2) and whether one of them failed.
NoHistory ==
    [nStreamEnd |-> 0, dataError |-> FALSE, finishCalled |-> FALSE,
     nInit |-> 0, initFailed |-> FALSE]

Cap(n) == IF n < 2 THEN n + 1 ELSE n

Init ==
    /\ allocated = FALSE
    /\ sequence = SEQ_INIT
    /\ memlimit = 0
    /\ flags = {}
    /\ nxt = LZMA_NEXT_CODER_INIT
    /\ inbuf = <<>>
    /\ in_pos = 0
    /\ out_pos = 0
    /\ out_size = 0
    /\ last = NoCall
    /\ hist = NoHistory
    /\ crashed = FALSE

\* Faulty variant: the dispatcher is allocated before the flags are checked.
auto_decoder_init_AllocFirst(h, mem, fl, allocOk) ==
    IF ~h.allocated /\ ~allocOk
    THEN [h EXCEPT !.ret = LZMA_MEM_ERROR]
    ELSE IF fl \ LZMA_SUPPORTED_FLAGS # {}
    THEN [h EXCEPT !.ret = LZMA_OPTIONS_ERROR, !.allocated = TRUE]
    ELSE [ret |-> LZMA_OK, allocated |-> TRUE,
          next |-> IF h.allocated THEN h.next ELSE LZMA_NEXT_CODER_INIT,
          memlimit |-> mem, flags |-> fl, sequence |-> SEQ_INIT]

\* Faulty variant: a dispatcher that is reused keeps its old sequence.
auto_decoder_init_NoReset(h, mem, fl, allocOk) ==
    IF fl \ LZMA_SUPPORTED_FLAGS # {}
    THEN [h EXCEPT !.ret = LZMA_OPTIONS_ERROR]
    ELSE IF ~h.allocated /\ ~allocOk
    THEN [h EXCEPT !.ret = LZMA_MEM_ERROR]
    ELSE [ret |-> LZMA_OK, allocated |-> TRUE,
          next |-> IF h.allocated THEN h.next ELSE LZMA_NEXT_CODER_INIT,
          memlimit |-> mem, flags |-> fl,
          sequence |-> IF h.allocated THEN h.sequence ELSE SEQ_INIT]

\* auto_decoder_init() on the handle h (the dispatcher's fields, and whether
\* it is allocated).  allocOk is the outcome of lzma_alloc() should the
\* dispatcher have to be allocated.  The handle is only ever used for this
\* coder, so lzma_next_coder_init() on line 131 finds its own initializer
\* recorded and releases nothing.
auto_decoder_init(h, mem, fl, allocOk) ==
    IF fl \ LZMA_SUPPORTED_FLAGS # {}
    THEN [h EXCEPT !.ret = LZMA_OPTIONS_ERROR]
    ELSE IF ~h.allocated /\ ~allocOk
    THEN [h EXCEPT !.ret = LZMA_MEM_ERROR]
    ELSE [ret |-> LZMA_OK, allocated |-> TRUE,
          next |-> IF h.allocated THEN h.next ELSE LZMA_NEXT_CODER_INIT,
          memlimit |-> mem, flags |-> fl, sequence |-> SEQ_INIT]

\* lzma_auto_decoder(): the configuration entry point; it hands the result
\* of auto_decoder_init() to the caller.  A successful configure starts a
\* new logical stream, for which the caller starts its buffers afresh.
Configure(mem, fl, allocOk) ==
    /\ ~crashed
    /\ LET h == [ret |-> LZMA_OK, allocated |-> allocated, next |-> nxt,
                 memlimit |-> memlimit, flags |-> flags,
                 sequence |-> sequence]
           r == auto_decoder_init(h, mem, fl, allocOk)
       IN  /\ last' = [NoCall EXCEPT !.op = "configure", !.ret = r.ret]
           /\ allocated' = r.allocated
           /\ nxt' = r.next
           /\ memlimit' = r.memlimit
           /\ flags' = r.flags
           /\ sequence' = r.sequence
           /\ IF r.ret = LZMA_OK
              THEN /\ hist' = NoHistory
                   /\ inbuf' = <<>>
                   /\ in_pos' = 0
                   /\ out_pos' = 0
                   /\ out_size' = 0
              ELSE UNCHANGED <<hist, inbuf, in_pos, out_pos, out_size>>
    /\ UNCHANGED crashed

\* One call of auto_decode() through the handle's code pointer.
Advance(action, initOk) ==
    /\ allocated
    /\ ~crashed
    /\ LET c == [sequence |-> sequence, memlimit |-> memlimit,
                 flags |-> flags, next |-> nxt]
           r == auto_decode(c, inbuf, in_pos, out_pos, out_size, action,
                            initOk)
       IN  /\ sequence' = r.sequence
           /\ nxt' = r.next
           /\ in_pos' = r.in_pos
           /\ out_pos' = r.out_pos
           /\ crashed' = (r.ret = CRASH)
           /\ last' = [op |-> "advance", action |-> action, ret |-> r.ret,
                       seq0 |-> sequence,
                       avail0 |-> (in_pos < in_size),
                       first |-> Peek(inbuf, in_pos),
                       ended0 |-> nxt.ended,
                       init0 |-> IF r.initKind # "none"
                                 THEN nxt.init ELSE "none",
                       initKind |-> r.initKind, initRet |-> r.initRet,
                       initArgs |-> IF r.initKind = "none" THEN NoArgs
                                    ELSE InitArgs(c, r.initKind),
                       delegated |-> r.delegated,
                       inMoved |-> (r.in_pos # in_pos),
                       outMoved |-> (r.out_pos # out_pos),
                       nextChanged |-> (r.next # nxt), released |-> 0]
           /\ hist' = [hist EXCEPT
                 !.nStreamEnd = IF r.ret = LZMA_STREAM_END
                                THEN Cap(@) ELSE @,
                 !.dataError = @ \/ r.ret = LZMA_DATA_ERROR,
                 !.finishCalled = @ \/ action = LZMA_FINISH,
                 !.nInit = IF r.initKind # "none" THEN Cap(@) ELSE @,
                 !.initFailed = @ \/ r.initRet = LZMA_MEM_ERROR]
    /\ UNCHANGED <<allocated, memlimit, flags, inbuf, out_size>>

\* Faulty variant: the slot's get_check is called without the NULL test.
auto_decoder_get_check_NoNullTest(s) == DelegateGetCheck(s)

\* auto_decoder_get_check(): the check-kind accessor, a pure query.
auto_decoder_get_check(s) ==
    IF ~HasGetCheck(s) THEN LZMA_CHECK_NONE ELSE DelegateGetCheck(s)

GetCheck ==
    /\ allocated
    /\ ~crashed
    /\ auto_decoder_get_check(nxt) \in {LZMA_CHECK_NONE, LZMA_CHECK_CRC32}
    /\ UNCHANGED vars

\* The decoder release calls that lzma_next_end() makes on the slot s: one
\* for an installed decoder, none for a slot without one.
Releases(s) == IF s.code THEN 1 ELSE 0

\* Faulty variant: the dispatcher is freed and its slot is left as it is.
auto_decoder_end_LeaksSlot(s) ==
    [allocated |-> FALSE, next |-> s, released |-> 0]

\* auto_decoder_end(): release the nested slot s, then the dispatcher.
auto_decoder_end(s) ==
    [allocated |-> FALSE, next |-> lzma_next_end(s),
     released |-> Releases(s)]

End ==
    /\ allocated
    /\ ~crashed
    /\ allocated' = auto_decoder_end(nxt).allocated
    /\ nxt' = auto_decoder_end(nxt).next
    /\ sequence' = SEQ_INIT
    /\ memlimit' = 0
    /\ flags' = {}
    /\ last' = [NoCall EXCEPT !.op = "end", !.seq0 = sequence,
                              !.released = auto_decoder_end(nxt).released]
    /\ hist' = NoHistory
    /\ UNCHANGED <<inbuf, in_pos, out_pos, out_size, crashed>>

\* The caller appends one byte to the input buffer (in_size grows).  Having
\* used LZMA_FINISH, which promises that no more input will come, the caller
\* appends nothing more to this stream.
Feed(b) ==
    /\ allocated
    /\ ~crashed
    /\ ~hist.finishCalled
    /\ Len(inbuf) < MaxLen
    /\ inbuf' = Append(inbuf, b)
    /\ last' = [NoCall EXCEPT !.op = "feed"]
    /\ UNCHANGED <<allocated, sequence, memlimit, flags, nxt, in_pos,
                   out_pos, out_size, hist, crashed>>

\* The caller makes room for one more output byte (out_size grows).
GrowOut ==
    /\ allocated
    /\ ~crashed
    /\ out_size < MaxOut
    /\ out_size' = out_size + 1
    /\ last' = [NoCall EXCEPT !.op = "grow"]
    /\ UNCHANGED <<allocated, sequence, memlimit, flags, nxt, inbuf, in_pos,
                   out_pos, hist, crashed>>

Next ==
    \/ \E mem \in MemLimits, fl \in FlagChoices,
          allocOk \in (IF allocated THEN {TRUE} ELSE BOOLEAN) :
            Configure(mem, fl, allocOk)
    \/ \E action \in Actions,
          initOk \in (IF sequence = SEQ_INIT THEN BOOLEAN ELSE {TRUE}) :
            Advance(action, initOk)
    \/ GetCheck
    \/ End
    \/ \E b \in (IF inbuf = <<>> THEN Bytes ELSE LaterBytes) : Feed(b)
    \/ GrowOut

Spec == Init /\ [][Next]_vars

\* The caller of the termination property.  It configures the dispatcher
\* with LZMA_CONCATENATED set and meets no allocation failure.  Once the
\* dispatcher is in SEQ_FINISH with all input consumed, and until
\* LZMA_STREAM_END is returned, it does nothing but call auto_decode(), and
\* it does not go on using LZMA_RUN for ever.
ConcatenatedFlagChoices ==
    {{LZMA_CONCATENATED}, {LZMA_CONCATENATED, LZMA_TELL_ANY_CHECK}}

StreamEndReturned == last.op = "advance" /\ last.ret = LZMA_STREAM_END

Draining ==
    /\ allocated
    /\ sequence = SEQ_FINISH
    /\ in_pos = in_size
    /\ ~StreamEndReturned

NextDraining ==
    \/ \E mem \in MemLimits, fl \in ConcatenatedFlagChoices :
          ~Draining /\ Configure(mem, fl, TRUE)
    \/ \E action \in Actions : Advance(action, TRUE)
    \/ ~Draining /\ End
    \/ \E b \in (IF inbuf = <<>> THEN Bytes ELSE LaterBytes) :
          ~Draining /\ Feed(b)
    \/ ~Draining /\ GrowOut

SpecDraining ==
    /\ Init
    /\ [][NextDraining]_vars
    /\ WF_vars(Draining /\ Advance(LZMA_FINISH, TRUE))

TypeOK ==
    /\ allocated \in BOOLEAN
    /\ sequence \in {SEQ_INIT, SEQ_CODE, SEQ_FINISH}
    /\ flags \subseteq LZMA_SUPPORTED_FLAGS
    /\ memlimit \in MemLimits \cup {0}
    /\ in_pos \in 0..in_size
    /\ out_pos \in 0..out_size
    /\ out_size \in 0..MaxOut


(***************************************************************************)
(* Properties.                                                             *)
(***************************************************************************)
\* The state right after an advance call that returned (did not trap).
Advanced == last.op = "advance" /\ last.ret # CRASH

\* The advance call just made ran detection: it started in SEQ_INIT with an
\* input byte available.
Detected == Advanced /\ last.seq0 = SEQ_INIT /\ last.avail0

\* C1: whatever the configuration and however the input was chunked, the
\* initializer that detection runs on the slot is the Stream decoder's if
\* and only if the first available byte is 0xFD, and the LZMA_Alone
\* decoder's for every other byte; when it succeeds that decoder is the one
\* installed.
C1_DetectionByFirstByte ==
    Detected =>
        /\ (last.initKind = "stream") <=> (last.first = MagicByte)
        /\ (last.initKind = "alone") <=> (last.first # MagicByte)
        /\ nxt.init = last.initKind
        /\ (last.initRet = LZMA_OK => nxt.code)

\* C1 witness: the Stream decoder was chosen for a magic byte that arrived
\* in a buffer holding further bytes, with a flag set.
C1_Witness ==
    /\ Detected
    /\ last.first = MagicByte
    /\ last.initKind = "stream"
    /\ nxt.init = "stream"
    /\ Len(inbuf) >= 2
    /\ flags # {}

\* C2: an advance call made in SEQ_INIT with no input byte available returns
\* LZMA_OK, stays in SEQ_INIT, leaves the slot and both cursors unchanged
\* and calls no initializer, for either action and however often repeated.
C2_IdleInInit ==
    (last.op = "advance" /\ last.seq0 = SEQ_INIT /\ ~last.avail0) =>
        /\ last.ret = LZMA_OK
        /\ sequence = SEQ_INIT
        /\ last.initKind = "none"
        /\ ~last.delegated
        /\ ~last.nextChanged
        /\ ~last.inMoved
        /\ ~last.outMoved
        /\ hist.nInit = 0

\* C2 witness: an idle call with LZMA_FINISH before any byte arrived.
C2_Witness ==
    /\ last.op = "advance"
    /\ last.seq0 = SEQ_INIT
    /\ ~last.avail0
    /\ last.action = LZMA_FINISH
    /\ last.ret = LZMA_OK
    /\ inbuf = <<>>

\* C3: over advance calls the sequence is always one of SEQ_INIT, SEQ_CODE,
\* SEQ_FINISH and never moves backward, so no call returns LZMA_PROG_ERROR.
C3_SequenceForward ==
    /\ sequence \in {SEQ_INIT, SEQ_CODE, SEQ_FINISH}
    /\ last.op = "advance" =>
          /\ sequence >= last.seq0
          /\ last.ret # LZMA_PROG_ERROR

\* C3 witness: one call took the dispatcher from SEQ_INIT to SEQ_FINISH.
C3_Witness ==
    /\ Advanced
    /\ last.seq0 = SEQ_INIT
    /\ sequence = SEQ_FINISH

\* C4: SEQ_FINISH is entered only in an advance call in which the installed
\* decoder returned its stream end while LZMA_CONCATENATED is set; hence
\* SEQ_FINISH implies the flag is set and the decoder has reported its
\* stream end, and without the flag SEQ_FINISH is never reached.
C4_FinishOnlyOnConcatenatedEnd ==
    /\ sequence = SEQ_FINISH =>
          /\ LZMA_CONCATENATED \in flags
          /\ nxt.ended
    /\ (last.op = "advance" /\ last.seq0 # SEQ_FINISH
            /\ sequence = SEQ_FINISH) =>
          /\ last.delegated
          /\ nxt.pos = "end"

\* C4 witness: SEQ_FINISH entered from SEQ_CODE.
C4_Witness ==
    /\ Advanced
    /\ last.seq0 = SEQ_CODE
    /\ sequence = SEQ_FINISH
    /\ last.delegated

\* C5: whenever an advance call ends in SEQ_FINISH, the call that enters it
\* included, it returns LZMA_DATA_ERROR if input remains unconsumed, and
\* otherwise LZMA_STREAM_END for LZMA_FINISH and LZMA_OK for LZMA_RUN; a
\* call that starts in SEQ_FINISH moves neither cursor, does not call the
\* decoder and stays in SEQ_FINISH.
C5_FinishStatus ==
    /\ (last.op = "advance" /\ sequence = SEQ_FINISH) =>
          last.ret = IF in_pos < in_size THEN LZMA_DATA_ERROR
                     ELSE IF last.action = LZMA_FINISH THEN LZMA_STREAM_END
                     ELSE LZMA_OK
    /\ (last.op = "advance" /\ last.seq0 = SEQ_FINISH) =>
          /\ sequence = SEQ_FINISH
          /\ ~last.inMoved
          /\ ~last.outMoved
          /\ ~last.delegated

\* C5 witness: a call that started in SEQ_FINISH found a stray byte.
C5_Witness ==
    /\ Advanced
    /\ last.seq0 = SEQ_FINISH
    /\ last.ret = LZMA_DATA_ERROR
    /\ last.action = LZMA_FINISH
    /\ in_pos < in_size


\* C6 as claimed: LZMA_STREAM_END is returned only to a call whose action is
\* LZMA_FINISH, whatever the flags.
C6_StreamEndOnlyOnFinish ==
    (Advanced /\ last.ret = LZMA_STREAM_END) => last.action = LZMA_FINISH

\* C6 amended: with LZMA_CONCATENATED set LZMA_STREAM_END is returned only
\* to a call whose action is LZMA_FINISH; an LZMA_STREAM_END returned to an
\* LZMA_RUN call is the installed decoder's own status, forwarded with the
\* flag unset.
C6_StreamEndOnRunIsForwarded ==
    /\ (Advanced /\ last.ret = LZMA_STREAM_END
            /\ LZMA_CONCATENATED \in flags) =>
          last.action = LZMA_FINISH
    /\ (Advanced /\ last.ret = LZMA_STREAM_END
            /\ last.action # LZMA_FINISH) =>
          /\ last.delegated
          /\ sequence = SEQ_CODE
          /\ LZMA_CONCATENATED \notin flags

\* C6 witness: with the flag set the dispatcher itself reported the end.
C6_Witness ==
    /\ Advanced
    /\ last.ret = LZMA_STREAM_END
    /\ last.action = LZMA_FINISH
    /\ LZMA_CONCATENATED \in flags
    /\ sequence = SEQ_FINISH


\* A complete valid sub-stream of the given format in the toy grammar.
IsSubstream(w, kind) ==
    /\ Len(w) >= 2
    /\ (kind = "stream") <=> (w[1] = MagicByte)
    /\ w[Len(w)] = EndByte
    /\ \A i \in 2..(Len(w) - 1) : w[i] # EndByte

\* The input is exactly two such sub-streams, the first k bytes long.
SplitsAt(w, kind, k) ==
    /\ k \in 2..(Len(w) - 2)
    /\ IsSubstream(SubSeq(w, 1, k), kind)
    /\ IsSubstream(SubSeq(w, k + 1, Len(w)), kind)

TwoSubstreams(w, kind) == \E k \in 1..Len(w) : SplitsAt(w, kind, k)

\* The case of C7: LZMA_CONCATENATED is set, the whole input of this stream
\* is two sub-streams of one format, and the initializer did not fail.
ConcatenatedPair(kind) ==
    /\ Advanced
    /\ LZMA_CONCATENATED \in flags
    /\ TwoSubstreams(inbuf, kind)
    /\ hist.nInit = 1
    /\ ~hist.initFailed
    /\ nxt.init = kind

\* C7 as claimed: for either format, no call on such an input returns
\* LZMA_DATA_ERROR (the second sub-stream is not taken for trailing garbage)
\* and the call that completes the input with LZMA_FINISH brings the one
\* LZMA_STREAM_END.
C7_SecondSubstreamAccepted ==
    \A kind \in {"stream", "alone"} :
        ConcatenatedPair(kind) =>
            /\ ~hist.dataError
            /\ (last.action = LZMA_FINISH /\ in_pos = in_size
                    /\ last.seq0 # SEQ_FINISH) =>
                  /\ last.ret = LZMA_STREAM_END
                  /\ hist.nStreamEnd = 1

\* C7 amended: that holds for the Stream format, whose decoder handles the
\* concatenation itself.  For LZMA_Alone the dispatcher is in SEQ_FINISH as
\* soon as the first sub-stream has ended, and a call with the second
\* sub-stream in the window returns LZMA_DATA_ERROR without consuming it, so
\* the input is never consumed to its end.
C7_OnlyStreamFormatConcatenates ==
    /\ ConcatenatedPair("stream") =>
          /\ ~hist.dataError
          /\ (last.action = LZMA_FINISH /\ in_pos = in_size
                  /\ last.seq0 # SEQ_FINISH) =>
                /\ last.ret = LZMA_STREAM_END
                /\ hist.nStreamEnd = 1
    /\ ConcatenatedPair("alone") =>
          /\ in_pos < in_size
          /\ hist.nStreamEnd = 0
          /\ nxt.ended =>
                /\ sequence = SEQ_FINISH
                /\ last.ret = LZMA_DATA_ERROR
                /\ SplitsAt(inbuf, "alone", in_pos)

\* C7 witness: two Stream sub-streams consumed to the end, the finishing
\* call returning the only LZMA_STREAM_END.
C7_Witness ==
    /\ ConcatenatedPair("stream")
    /\ last.action = LZMA_FINISH
    /\ in_pos = in_size
    /\ last.ret = LZMA_STREAM_END
    /\ hist.nStreamEnd = 1
    /\ ~hist.dataError

\* C8: with LZMA_CONCATENATED unset, once the installed decoder has reported
\* its stream end every further advance call that has unconsumed input
\* returns LZMA_STREAM_END again, never LZMA_DATA_ERROR; the dispatcher
\* stays in SEQ_CODE and the following bytes are not consumed.
C8_StaysDoneWithoutConcatenated ==
    /\ (Advanced /\ LZMA_CONCATENATED \notin flags
            /\ last.seq0 = SEQ_CODE /\ last.ended0 /\ last.avail0) =>
          /\ last.ret = LZMA_STREAM_END
          /\ sequence = SEQ_CODE
          /\ ~last.inMoved
          /\ ~last.outMoved
    /\ LZMA_CONCATENATED \notin flags => ~hist.dataError

\* C8 witness: a second call after the end, with bytes still unconsumed.
C8_Witness ==
    /\ Advanced
    /\ LZMA_CONCATENATED \notin flags
    /\ last.seq0 = SEQ_CODE
    /\ last.ended0
    /\ last.avail0
    /\ last.ret = LZMA_STREAM_END
    /\ hist.nStreamEnd = 2
    /\ ~hist.initFailed

\* The detection call chose LZMA_Alone and its initializer succeeded.
DetectedAlone ==
    Detected /\ last.initKind = "alone" /\ last.initRet = LZMA_OK

\* The slot as a successful lzma_alone_decoder_init() leaves it.
FreshAlone ==
    [init |-> "alone", code |-> TRUE, pos |-> "header", ended |-> FALSE,
     concat |-> FALSE]

\* C9: on the LZMA_Alone path with LZMA_TELL_NO_CHECK set, the detection
\* call returns LZMA_NO_CHECK without calling the decoder, consuming no
\* input and producing no output, and leaves SEQ_CODE with the decoder at
\* its start and the detection byte unconsumed; a call made in SEQ_CODE on a
\* live decoder always forwards to it.
C9_NoCheckBeforeDecoding ==
    /\ (DetectedAlone /\ LZMA_TELL_NO_CHECK \in flags) =>
          /\ last.ret = LZMA_NO_CHECK
          /\ ~last.delegated
          /\ ~last.inMoved
          /\ ~last.outMoved
          /\ sequence = SEQ_CODE
          /\ nxt = FreshAlone
          /\ in_pos < in_size
          /\ Peek(inbuf, in_pos) = last.first
    /\ (Advanced /\ last.seq0 = SEQ_CODE) => last.delegated

\* C9 witness: LZMA_NO_CHECK returned with an empty output buffer.
C9_Witness ==
    /\ DetectedAlone
    /\ LZMA_TELL_NO_CHECK \in flags
    /\ last.ret = LZMA_NO_CHECK
    /\ out_size = 0
    /\ sequence = SEQ_CODE

\* C10 as claimed: on the LZMA_Alone path with LZMA_TELL_ANY_CHECK set the
\* detection call returns LZMA_GET_CHECK, whatever the other flags.
C10_GetCheckWheneverAsked ==
    (DetectedAlone /\ LZMA_TELL_ANY_CHECK \in flags) =>
        last.ret = LZMA_GET_CHECK

\* C10 amended: it returns LZMA_GET_CHECK, before anything is decoded, when
\* LZMA_TELL_NO_CHECK is not set as well; when both are set it returns
\* LZMA_NO_CHECK instead, and LZMA_GET_CHECK is never returned for that
\* LZMA_Alone stream.
C10_GetCheckUnlessNoCheck ==
    /\ (DetectedAlone /\ LZMA_TELL_ANY_CHECK \in flags) =>
          /\ last.ret = IF LZMA_TELL_NO_CHECK \in flags
                        THEN LZMA_NO_CHECK ELSE LZMA_GET_CHECK
          /\ ~last.delegated
          /\ ~last.inMoved
          /\ ~last.outMoved
    /\ (Advanced /\ nxt.init = "alone" /\ last.ret = LZMA_GET_CHECK) =>
          /\ DetectedAlone
          /\ LZMA_TELL_ANY_CHECK \in flags
          /\ LZMA_TELL_NO_CHECK \notin flags

\* C10 witness: LZMA_GET_CHECK returned at detection, with
\* LZMA_CONCATENATED set as well.
C10_Witness ==
    /\ DetectedAlone
    /\ flags = {LZMA_TELL_ANY_CHECK, LZMA_CONCATENATED}
    /\ last.ret = LZMA_GET_CHECK
    /\ in_pos = 0


\* The dispatcher's own fields and its nested slot.
Handle == <<allocated, sequence, memlimit, flags, nxt>>

ThisHandle ==
    [ret |-> LZMA_OK, allocated |-> allocated, next |-> nxt,
     memlimit |-> memlimit, flags |-> flags, sequence |-> sequence]

\* Memory limits a caller may pass to a configure call.
ConfigureLimits == MemLimits \cup {2}

\* C12: on a dispatcher that exists already, whatever its sequence and
\* whatever decoder its slot holds, a configure call with supported flags
\* succeeds without allocating, leaves sequence = SEQ_INIT, stores the
\* new memory limit and flags and keeps the slot.  The state right after
\* such a call is in SEQ_INIT with nothing consumed, and in SEQ_INIT,
\* whatever the slot holds from an earlier stream, an advance call that sees
\* an input byte picks the initializer by that byte alone.
C12_ReconfigureRestartsDetection ==
    /\ allocated =>
          \A mem \in ConfigureLimits, fl \in SUBSET LZMA_SUPPORTED_FLAGS :
             LET r == auto_decoder_init(ThisHandle, mem, fl, FALSE)
             IN  /\ r.ret = LZMA_OK
                 /\ r.allocated
                 /\ r.sequence = SEQ_INIT
                 /\ r.memlimit = mem
                 /\ r.flags = fl
                 /\ r.next = nxt
    /\ (last.op = "configure" /\ last.ret = LZMA_OK) =>
          /\ allocated
          /\ sequence = SEQ_INIT
          /\ hist.nInit = 0
          /\ in_pos = 0
    /\ (allocated /\ sequence = SEQ_INIT) =>
          \A b \in Bytes, action \in Actions :
             LET c == [sequence |-> sequence, memlimit |-> memlimit,
                       flags |-> flags, next |-> nxt]
             IN  auto_decode(c, <<b>>, 0, 0, 0, action, TRUE).initKind
                    = IF b = MagicByte THEN "stream" ELSE "alone"

\* C12 witness: a successful configure on a dispatcher whose slot holds the
\* LZMA_Alone decoder of the previous stream, part of which was decoded.
C12_Witness ==
    /\ last.op = "configure"
    /\ last.ret = LZMA_OK
    /\ nxt.init = "alone"
    /\ nxt.code
    /\ nxt.pos = "body"

\* C13: auto_decoder_get_check() answers with the slot decoder's own check
\* kind when the slot holds a decoder with a get_check function, and with
\* LZMA_CHECK_NONE otherwise: whenever the slot is empty or holds the
\* LZMA_Alone decoder, also right after a detection call that installed
\* the LZMA_Alone decoder in a slot where an earlier stream had left the
\* Stream decoder.
C13_GetCheckOfInstalledDecoder ==
    allocated =>
       /\ (nxt.init = "stream" /\ nxt.code) =>
             auto_decoder_get_check(nxt) = DelegateGetCheck(nxt)
       /\ (~nxt.code \/ nxt.init = "alone") =>
             auto_decoder_get_check(nxt) = LZMA_CHECK_NONE
       /\ (Detected /\ last.initKind = "alone") =>
             auto_decoder_get_check(nxt) = LZMA_CHECK_NONE

\* C13 witness: the LZMA_Alone decoder was just installed over the Stream
\* decoder of the stream before, and the accessor says LZMA_CHECK_NONE.
C13_Witness ==
    /\ Detected
    /\ last.initKind = "alone"
    /\ last.init0 = "stream"
    /\ last.initRet = LZMA_OK
    /\ nxt.code
    /\ auto_decoder_get_check(nxt) = LZMA_CHECK_NONE

\* C14: teardown works in every state of a dispatcher that exists, with an
\* empty slot in SEQ_INIT and in SEQ_CODE after a failed initializer as
\* well: it releases the decoder in the slot exactly once if there is one
\* and none otherwise, then frees the dispatcher, and afterwards the slot
\* holds no decoder.
C14_TeardownReleasesSlot ==
    /\ (allocated /\ ~crashed) =>
          LET e == auto_decoder_end(nxt)
          IN  /\ ~e.allocated
              /\ e.next = LZMA_NEXT_CODER_INIT
              /\ e.released = IF nxt.code THEN 1 ELSE 0
    /\ last.op = "end" =>
          /\ ~crashed
          /\ ~allocated
          /\ ~nxt.code
          /\ nxt.init = "none"
          /\ last.released \in {0, 1}
          /\ (last.seq0 = SEQ_FINISH => last.released = 1)

\* C14 witness: teardown in SEQ_CODE with no decoder in the slot, which is
\* where a failed initializer leaves a fresh dispatcher.
C14_Witness ==
    /\ last.op = "end"
    /\ last.seq0 = SEQ_CODE
    /\ last.released = 0
    /\ ~allocated
    /\ nxt = LZMA_NEXT_CODER_INIT

\* The advance call just made produced its status in auto_decode() itself:
\* it started in SEQ_INIT or SEQ_FINISH and called neither an initializer
\* nor the slot's code function.
OwnStatus ==
    /\ Advanced
    /\ last.seq0 \in {SEQ_INIT, SEQ_FINISH}
    /\ last.initKind = "none"
    /\ ~last.delegated

\* C15: an advance call with action LZMA_FINISH whose status auto_decode()
\* produces itself, in SEQ_INIT or in SEQ_FINISH, never returns LZMA_OK: it
\* returns LZMA_STREAM_END or an error, also when no input byte has ever
\* arrived.  (Refuted: in SEQ_INIT with an empty input window lines 47-48
\* return LZMA_OK whatever the action.)
C15_FinishNeverOk ==
    (OwnStatus /\ last.action = LZMA_FINISH) =>
       last.ret \in {LZMA_STREAM_END, LZMA_DATA_ERROR, LZMA_PROG_ERROR,
                     LZMA_MEM_ERROR, LZMA_FORMAT_ERROR, LZMA_OPTIONS_ERROR}

\* C16: whenever sequence = SEQ_CODE, where auto_decode() forwards to the
\* slot's code function, the slot holds a decoder whose initializer
\* succeeded, so no call is ever made through an empty slot; this covers
\* the calls made after the detection call returned an initializer's error.
\* (Refuted: line 51 sets SEQ_CODE before the initializer runs, a failed
\* initializer leaves a fresh slot without a code function, and the next
\* call reaches line 80 with coder->next.code NULL.)
C16_ForwardOnlyToLiveDecoder ==
    /\ ~crashed
    /\ (allocated /\ sequence = SEQ_CODE) =>
          /\ nxt.code
          /\ ~hist.initFailed

\* C17: between two successful configure calls detection runs at most once:
\* at most one initializer is called, only by a call that starts in
\* SEQ_INIT, and from then on the sequence is not SEQ_INIT again, whether
\* the initializer failed or the detection call returned LZMA_NO_CHECK or
\* LZMA_GET_CHECK; later calls start in SEQ_CODE or SEQ_FINISH and call no
\* initializer.
C17_DetectionOnce ==
    /\ hist.nInit <= 1
    /\ hist.nInit = 1 => sequence # SEQ_INIT
    /\ hist.initFailed => hist.nInit = 1
    /\ last.op = "advance" =>
          /\ last.initKind # "none" =>
                (last.seq0 = SEQ_INIT /\ last.avail0 /\ hist.nInit = 1)
          /\ last.seq0 # SEQ_INIT => last.initKind = "none"
          /\ last.ret \in {LZMA_NO_CHECK, LZMA_GET_CHECK} =>
                (sequence = SEQ_CODE /\ hist.nInit = 1)

\* C17 witness: an initializer failed, and a later advance call started in
\* SEQ_CODE and called no initializer.
C17_Witness ==
    /\ hist.initFailed
    /\ hist.nInit = 1
    /\ last.op = "advance"
    /\ last.seq0 = SEQ_CODE
    /\ last.initKind = "none"

\* The slot as the code function finds it in the advance call about to be
\* made: in SEQ_INIT the slot that the initializer chosen by the first byte
\* sets up, otherwise the slot as it is.
EntrySlot ==
    IF sequence # SEQ_INIT THEN nxt
    ELSE IF IsStreamMagic(Peek(inbuf, in_pos))
    THEN lzma_stream_decoder_init(nxt, memlimit, flags, TRUE).next
    ELSE lzma_alone_decoder_init(nxt, memlimit, TRUE).next

\* C18: auto_decode() is a pure forwarder.  A call that does not call the
\* slot's code function (a return in SEQ_INIT, detection included, or in
\* SEQ_FINISH) leaves both cursors where they were.  A call that does hands
\* over the caller's buffer, cursors and action as they are: the cursors
\* and the slot end up as that one call of the code function leaves them,
\* and the status returned is the code function's, except for
\* LZMA_STREAM_END with LZMA_CONCATENATED set, which gives way to the
\* SEQ_FINISH status.
C18_PureForwarder ==
    [][(last'.op = "advance" /\ last'.ret # CRASH) =>
          IF last'.delegated
          THEN LET d == DelegateCode(EntrySlot, inbuf, in_pos, out_pos,
                                     out_size, last'.action)
               IN  /\ in_pos' = d.in_pos
                   /\ out_pos' = d.out_pos
                   /\ nxt' = d.next
                   /\ IF d.ret = LZMA_STREAM_END
                         /\ LZMA_CONCATENATED \in flags
                      THEN /\ sequence' = SEQ_FINISH
                           /\ last'.ret = FinishStatus(d.in_pos, in_size,
                                                       last'.action)
                      ELSE last'.ret = d.ret
          ELSE /\ UNCHANGED <<in_pos, out_pos>>
               /\ sequence # SEQ_CODE]_vars

\* C18 witness: a call in SEQ_CODE with LZMA_FINISH in which the code
\* function moved both cursors and whose LZMA_OK was passed on.
C18_Witness ==
    /\ last.op = "advance"
    /\ last.seq0 = SEQ_CODE
    /\ last.action = LZMA_FINISH
    /\ last.delegated
    /\ last.inMoved
    /\ last.outMoved
    /\ last.ret = LZMA_OK

\* C19: an advance call leaves the stored memlimit and flags alone, so the
\* initializer that detection calls gets the values stored by the most
\* recent successful configure: the Stream decoder's the memory limit and
\* all the flags, LZMA_CONCATENATED among them (the decoder installed acts
\* on it), the LZMA_Alone decoder's the memory limit and no flags.
C19_InitializerArguments ==
    /\ [][last'.op = "advance" => UNCHANGED <<memlimit, flags>>]_vars
    /\ [](last.op = "advance" =>
            /\ last.initKind = "stream" =>
                  last.initArgs = [memlimit |-> memlimit, flags |-> flags,
                                   withFlags |-> TRUE]
            /\ last.initKind = "alone" =>
                  last.initArgs = [memlimit |-> memlimit, flags |-> {},
                                   withFlags |-> FALSE]
            /\ last.initKind = "none" => last.initArgs = NoArgs
            /\ last.initKind # "none" => memlimit \in MemLimits
            /\ (last.initKind = "stream" /\ last.initRet = LZMA_OK) =>
                  nxt.concat = (LZMA_CONCATENATED \in flags))

\* C19 witness: detection called the Stream decoder's initializer with
\* LZMA_CONCATENATED and LZMA_TELL_ANY_CHECK among the flags.
C19_Witness ==
    /\ last.op = "advance"
    /\ last.initKind = "stream"
    /\ last.initRet = LZMA_OK
    /\ last.initArgs.withFlags
    /\ last.initArgs.memlimit = memlimit
    /\ {LZMA_CONCATENATED, LZMA_TELL_ANY_CHECK} \subseteq last.initArgs.flags
    /\ nxt.concat

\* C20: with LZMA_CONCATENATED set, once the slot's decoder has reported its
\* stream end (sequence = SEQ_FINISH) and no input is left unconsumed, a
\* caller that keeps calling auto_decode() and at some point uses
\* LZMA_FINISH is eventually returned LZMA_STREAM_END; and a call with
\* LZMA_FINISH and an empty input window that starts in SEQ_FINISH returns
\* LZMA_STREAM_END there and then, never LZMA_OK.
C20_EventuallyStreamEnd ==
    /\ Draining ~> StreamEndReturned
    /\ []((/\ last.op = "advance"
           /\ last.seq0 = SEQ_FINISH
           /\ last.action = LZMA_FINISH
           /\ ~last.avail0) => last.ret = LZMA_STREAM_END)

\* C20 witness: LZMA_STREAM_END returned by a call with LZMA_FINISH that
\* started in SEQ_FINISH with an empty input window.
C20_Witness ==
    /\ StreamEndReturned
    /\ last.seq0 = SEQ_FINISH
    /\ last.action = LZMA_FINISH
    /\ ~last.avail0
    /\ LZMA_CONCATENATED \in flags
    /\ in_pos = in_size

====
